---- MODULE Spec2Model ----
(***************************************************************************)
(* Model of the PickleballTV streamlink plugin                             *)
(* (src/streamlink/plugins/pickleballtv.py).                               *)
(*                                                                         *)
(* PickleballTV._get_streams fetches a fixed JSON endpoint through         *)
(* session.http.get with a validate.Schema, takes                          *)
(* playlist[0]["sources"][0]["file"] and hands it to                        *)
(* HLSStream.parse_variant_playlist.                                       *)
(*                                                                         *)
(* Strings that the code inspects (the "file" values) are sequences of     *)
(* one-character strings, so that urlparse and endswith are computed the   *)
(* way the library computes them.  JSON values are records                 *)
(* [kind, val]: kind is "null", "str", "list" or "dict".                   *)
(*                                                                         *)
(* streamlink surfaces a transport failure, a JSON parse failure and a     *)
(* schema mismatch all as PluginError; the model names the raised error    *)
(* after the step that raised it (NetworkError, ParseError, SchemaError).  *)
(* The subscript at line 55 raises IndexError on an empty list.            *)
(***************************************************************************)
EXTENDS Naturals, Sequences, FiniteSets

VARIABLES
    reply,      \* what the server answers to the GET of this call
    pc,         \* position of _get_streams
    data,       \* the value flowing through the validate.Schema chain
    playlist,   \* local variable playlist (line 32)
    video_url,  \* local variable video_url (line 55)
    events,     \* steps this call has performed, in order
    handed,     \* URLs passed to HLSStream.parse_variant_playlist by this call
    raised,     \* exception that left _get_streams, or "none"
    result,     \* value returned by _get_streams
    first       \* outcome of the first completed call (repeated calls only)

vars == <<reply, pc, data, playlist, video_url, events, handed, raised, result, first>>

----------------------------------------------------------------------------
(* Bounds of the input universe *)

\* longest "playlist" list the server sends
MaxPlaylist == 2
\* most source entries in one response, over all playlist entries
MaxSources == 2
\* most source entries in one response when calls are repeated
RepeatSources == 1
\* stream sets HLSStream.parse_variant_playlist may produce
StreamSets == {{}, {"best"}, {"best", "worst"}}

----------------------------------------------------------------------------
(* Strings *)

M3U8 == <<".", "m", "3", "u", "8">>

Http == <<"h", "t", "t", "p">>

\* "http://c/v.m3u8"
UrlA   == Http \o <<":", "/", "/", "c", "/", "v">> \o M3U8
\* "http://c/v.m3u8?q"
UrlQ   == UrlA \o <<"?", "q">>
\* "//c/v.m3u8"
UrlN   == <<"/", "/", "c", "/", "v">> \o M3U8
\* "http://c/v.mp4"
UrlMp4 == Http \o <<":", "/", "/", "c", "/", "v", ".", "m", "p", "4">>
\* "/v.m3u8"
UrlRel == <<"/", "v">> \o M3U8
\* ""
Empty  == <<>>

Letters == {"h", "t", "p", "c", "v", "m", "u", "q"}
\* urllib.parse.uses_params, as far as the schemes of the universe go
UsesParams == {<<>>, Http}
Digits  == {"3", "4", "8"}
SchemeChars == Letters \cup Digits \cup {"+", "-", "."}

\* str.find(c, start) with 1-based positions; 0 when c does not occur
Find(s, c, start) ==
    LET hits == {i \in start..Len(s) : s[i] = c}
    IN  IF hits = {} THEN 0 ELSE CHOOSE i \in hits : \A j \in hits : i <= j

\* str.rfind(c) with 1-based positions; 0 when c does not occur
RFind(s, c) ==
    LET hits == {i \in 1..Len(s) : s[i] = c}
    IN  IF hits = {} THEN 0 ELSE CHOOSE i \in hits : \A j \in hits : i >= j

\* str.endswith(suffix)
EndsWith(s, suffix) ==
    /\ Len(s) >= Len(suffix)
    /\ SubSeq(s, Len(s) - Len(suffix) + 1, Len(s)) = suffix

Tail2(s, i) == SubSeq(s, i, Len(s))

\* urlsplit, first step: a leading run of scheme characters before the first
\* ":" is the scheme
SplitScheme(url, colon) ==
    IF /\ colon > 1
       /\ url[1] \in Letters
       /\ \A i \in 1..(colon - 1) : url[i] \in SchemeChars
    THEN [scheme |-> SubSeq(url, 1, colon - 1), rest |-> Tail2(url, colon + 1)]
    ELSE [scheme |-> <<>>, rest |-> url]

\* urlsplit, second step (_splitnetloc): after a leading "//" the netloc runs
\* to the first of "/", "?", "#"
SplitNetloc(r, delim) ==
    IF Len(r.rest) >= 2 /\ r.rest[1] = "/" /\ r.rest[2] = "/"
    THEN [scheme |-> r.scheme,
          netloc |-> SubSeq(r.rest, 3, delim - 1),
          rest |-> Tail2(r.rest, delim)]
    ELSE [scheme |-> r.scheme, netloc |-> <<>>, rest |-> r.rest]

FirstDelim(u) ==
    LET delims == {i \in 3..Len(u) : u[i] \in {"/", "?", "#"}}
    IN  IF delims = {} THEN Len(u) + 1
        ELSE CHOOSE i \in delims : \A j \in delims : i <= j

\* urlsplit, third step: the fragment follows the first "#"
SplitFragment(r, hash) ==
    [scheme |-> r.scheme, netloc |-> r.netloc,
     fragment |-> IF hash > 0 THEN Tail2(r.rest, hash + 1) ELSE <<>>,
     rest |-> IF hash > 0 THEN SubSeq(r.rest, 1, hash - 1) ELSE r.rest]

\* urlsplit, fourth step: the query follows the first "?"
SplitQuery(r, qm) ==
    [scheme |-> r.scheme, netloc |-> r.netloc, fragment |-> r.fragment,
     query |-> IF qm > 0 THEN Tail2(r.rest, qm + 1) ELSE <<>>,
     path |-> IF qm > 0 THEN SubSeq(r.rest, 1, qm - 1) ELSE r.rest]

WithNetloc(r) == SplitNetloc(r, FirstDelim(r.rest))
WithFragment(r) == SplitFragment(r, Find(r.rest, "#", 1))
WithQuery(r) == SplitQuery(r, Find(r.rest, "?", 1))

\* urllib.parse.urlsplit: scheme, netloc, path, query, fragment
UrlSplit(url) ==
    WithQuery(WithFragment(WithNetloc(SplitScheme(url, Find(url, ":", 1)))))

\* urlparse, last step (_splitparams): for a scheme that uses params, ";params"
\* is cut off the last path segment
SplitParams(sp, slash) ==
    LET semi == Find(sp.path, ";", IF slash > 0 THEN slash ELSE 1)
    IN  [scheme |-> sp.scheme, netloc |-> sp.netloc,
         path |-> IF sp.scheme \in UsesParams /\ semi > 0
                  THEN SubSeq(sp.path, 1, semi - 1) ELSE sp.path,
         query |-> sp.query, fragment |-> sp.fragment]

WithParams(sp) == SplitParams(sp, RFind(sp.path, "/"))

\* urllib.parse.urlparse
UrlParse(url) == WithParams(UrlSplit(url))

----------------------------------------------------------------------------
(* JSON values and the server's replies *)

Null      == [kind |-> "null", val |-> <<>>]
Str(s)    == [kind |-> "str",  val |-> s]
List(l)   == [kind |-> "list", val |-> l]
Dict(d)   == [kind |-> "dict", val |-> d]
NoData    == [kind |-> "none", val |-> <<>>]

HasKey(v, k) == v.kind = "dict" /\ k \in DOMAIN v.val

FileStrings == {UrlA, UrlQ, UrlN, UrlMp4, UrlRel, Empty}

\* elements of a "sources" list: with a string "file", with a "file" that is
\* no string, and without "file"
SourceItems ==
    {Dict([file |-> Str(s)]) : s \in FileStrings}
        \cup {Dict([file |-> Null]), Dict([label |-> Null])}

\* elements of a "playlist" list holding exactly n source entries
Entries(n) ==
    IF n = 0
    THEN {Dict([sources |-> List(<<>>)]), Dict([title |-> Null])}
    ELSE {Dict([sources |-> List(l)]) : l \in [1..n -> SourceItems]}

\* "playlist" lists of exactly len entries holding at most budget source entries
RECURSIVE Playlists(_, _)
Playlists(len, budget) ==
    IF len = 0 THEN {<<>>}
    ELSE UNION {{<<e>> \o p : e \in Entries(n), p \in Playlists(len - 1, budget - n)}
                    : n \in 0..budget}

Docs(maxLen, budget) ==
    {Null, Dict([title |-> Null]), Dict([file |-> Str(UrlA), title |-> Null]),
     Dict([playlist |-> Null, title |-> Null])}
        \cup {Dict([playlist |-> List(p), title |-> Null])
                 : p \in UNION {Playlists(len, budget) : len \in 0..maxLen}}

\* a reply is a transport failure, a body that is no JSON, or a JSON document
NetFail     == [kind |-> "fail", val |-> <<>>]
Garbage     == [kind |-> "text", val |-> <<"<", "h", "t", "m", "l", ">">>]
EmptyBody   == [kind |-> "text", val |-> <<>>]
Json(doc)   == [kind |-> "json", val |-> doc]

Replies(maxLen, budget) ==
    {NetFail, Garbage, EmptyBody} \cup {Json(d) : d \in Docs(maxLen, budget)}

----------------------------------------------------------------------------------------------------------------------------------------
(* validate.Schema(parse_json(), {...}, validate.get("playlist")) *)
(* A schema either raises ValidationError (Invalid) or returns the value   *)
(* it has built (Ok).                                                      *)

Invalid == [ok |-> FALSE, val |-> <<>>]
Ok(v)   == [ok |-> TRUE,  val |-> v]

\* check_url without the netloc test
CheckUrlPathOnly(parsed) == EndsWith(parsed.path, M3U8)

\* check_url without the path attribute
CheckUrlNetlocOnly(parsed) == parsed.netloc # <<>>

\* check_url of validate.url(path=validate.endswith(".m3u8")): the parsed URL
\* has a netloc, and its path attribute ends with ".m3u8"
CheckUrl(parsed) ==
    /\ parsed.netloc # <<>>
    /\ EndsWith(parsed.path, M3U8)

\* validate.url(...) as a schema: a str that passes check_url, returned as is
SchemaUrl(v) ==
    IF v.kind = "str" /\ CheckUrl(UrlParse(v.val)) THEN Ok(v.val) ELSE Invalid

\* a list schema that looks at the first element only
FirstOk(rs) ==
    IF \A i \in DOMAIN rs : (i = 1) => rs[i].ok
    THEN Ok([i \in DOMAIN rs |-> rs[i].val])
    ELSE Invalid

\* a list schema: every element must match; the matched elements, in order
AllOk(rs) ==
    IF \A i \in DOMAIN rs : rs[i].ok
    THEN Ok([i \in DOMAIN rs |-> rs[i].val])
    ELSE Invalid

\* a dict schema with one key: the new dict holds that key only
WrapFile(r)     == IF r.ok THEN Ok([file |-> r.val]) ELSE Invalid
WrapSources(r)  == IF r.ok THEN Ok([sources |-> r.val]) ELSE Invalid
WrapPlaylist(r) == IF r.ok THEN Ok([playlist |-> r.val]) ELSE Invalid

\* {"file": validate.url(...)}
SchemaSource(s) ==
    IF s.kind = "dict" /\ "file" \in DOMAIN s.val
    THEN WrapFile(SchemaUrl(s.val.file))
    ELSE Invalid

\* [{"file": ...}]
SchemaSources(v) ==
    IF v.kind = "list"
    THEN AllOk([i \in 1..Len(v.val) |-> SchemaSource(v.val[i])])
    ELSE Invalid

\* {"sources": [...]}
SchemaEntry(e) ==
    IF e.kind = "dict" /\ "sources" \in DOMAIN e.val
    THEN WrapSources(SchemaSources(e.val.sources))
    ELSE Invalid

\* [{"sources": ...}]
SchemaPlaylist(v) ==
    IF v.kind = "list"
    THEN AllOk([i \in 1..Len(v.val) |-> SchemaEntry(v.val[i])])
    ELSE Invalid

\* the top-level dict schema with "playlist" optional
SchemaDocOptional(d) ==
    IF d.kind = "dict"
    THEN IF "playlist" \in DOMAIN d.val
         THEN WrapPlaylist(SchemaPlaylist(d.val.playlist))
         ELSE Ok([playlist |-> <<>>])
    ELSE Invalid

\* {"playlist": [...]}
SchemaDoc(d) ==
    IF d.kind = "dict" /\ "playlist" \in DOMAIN d.val
    THEN WrapPlaylist(SchemaPlaylist(d.val.playlist))
    ELSE Invalid

\* validate.get("playlist")
GetPlaylist(r) == IF r.ok THEN Ok(r.val.playlist) ELSE Invalid

\* the dict schema followed by validate.get("playlist")
SchemaChain(d) == GetPlaylist(SchemaDoc(d))

----------------
(* PickleballTV._get_streams *)

Unset   == [kind |-> "unset", streams |-> {}]
NoFirst == [set |-> FALSE]

Fresh ==
    /\ pc = "get"
    /\ data = NoData
    /\ playlist = <<>>
    /\ video_url = <<>>
    /\ events = <<>>
    /\ handed = <<>>
    /\ raised = "none"
    /\ result = Unset

Init ==
    /\ reply \in Replies(MaxPlaylist, MaxSources)
    /\ first = NoFirst
    /\ Fresh

\* the GET issued again after a transport failure
HttpGetRetry ==
    /\ pc = "get"
    /\ events' = Append(events, "GET")
    /\ IF reply.kind = "fail"
       THEN /\ raised' = IF Len(events) = 0 THEN raised ELSE "NetworkError"
            /\ pc' = IF Len(events) = 0 THEN "get" ELSE "done"
            /\ data' = data
       ELSE /\ raised' = raised
            /\ pc' = "parse"
            /\ data' = reply
    /\ UNCHANGED <<reply, playlist, video_url, handed, result, first>>

\* line 32: self.session.http.get(...) issues the GET; a transport failure
\* leaves _get_streams as the client's error
HttpGet ==
    /\ pc = "get"
    /\ events' = Append(events, "GET")
    /\ IF reply.kind = "fail"
       THEN /\ raised' = "NetworkError"
            /\ pc' = "done"
            /\ data' = data
       ELSE /\ raised' = raised
            /\ pc' = "parse"
            /\ data' = reply
    /\ UNCHANGED <<reply, playlist, video_url, handed, result, first>>

\* parse_json that turns an unparseable body into null
ParseJsonLenient ==
    /\ pc = "parse"
    /\ events' = Append(events, "parse")
    /\ data' = IF data.kind = "json" THEN data.val ELSE Null
    /\ pc' = "validate"
    /\ raised' = raised
    /\ UNCHANGED <<reply, playlist, video_url, handed, result, first>>

\* line 35: validate.parse_json() on the response text
ParseJson ==
    /\ pc = "parse"
    /\ events' = Append(events, "parse")
    /\ IF data.kind = "json"
       THEN /\ data' = data.val
            /\ pc' = "validate"
            /\ raised' = raised
       ELSE /\ data' = NoData
            /\ pc' = "done"
            /\ raised' = "ParseError"
    /\ UNCHANGED <<reply, playlist, video_url, handed, result, first>>

\* lines 36-50: the dict schema, then validate.get("playlist")
ValidateSchema ==
    /\ pc = "validate"
    /\ events' = Append(events, "validate")
    /\ data' = NoData
    /\ IF SchemaChain(data).ok
       THEN /\ playlist' = SchemaChain(data).val
            /\ pc' = "extract"
            /\ raised' = raised
       ELSE /\ playlist' = playlist
            /\ pc' = "done"
            /\ raised' = "SchemaError"
    /\ UNCHANGED <<reply, video_url, handed, result, first>>

\* the last source of the first entry instead of the first
ExtractLastSource ==
    /\ pc = "extract"
    /\ events' = Append(events, "extract")
    /\ IF Len(playlist) = 0 \/ Len(playlist[1].sources) = 0
       THEN /\ raised' = "IndexError"
            /\ pc' = "done"
            /\ video_url' = video_url
       ELSE /\ raised' = raised
            /\ pc' = "return"
            /\ video_url' = playlist[1].sources[Len(playlist[1].sources)].file
    /\ UNCHANGED <<reply, data, playlist, handed, result, first>>

\* line 55: video_url = playlist[0]["sources"][0]["file"]
ExtractVideoUrl ==
    /\ pc = "extract"
    /\ events' = Append(events, "extract")
    /\ IF Len(playlist) = 0 \/ Len(playlist[1].sources) = 0
       THEN /\ raised' = "IndexError"
            /\ pc' = "done"
            /\ video_url' = video_url
       ELSE /\ raised' = raised
            /\ pc' = "return"
            /\ video_url' = playlist[1].sources[1].file
    /\ UNCHANGED <<reply, data, playlist, handed, result, first>>

\* lines 57-63: return nothing for a falsy video_url, else return what
\* HLSStream.parse_variant_playlist(self.session, video_url) produces
ReturnStreams ==
    /\ pc = "return"
    /\ pc' = "done"
    /\ IF video_url = <<>>
       THEN /\ result' = [kind |-> "none", streams |-> {}]
            /\ UNCHANGED <<events, handed>>
       ELSE /\ events' = Append(events, "delegate")
            /\ \E s \in StreamSets :
                  /\ handed' = Append(handed, [url |-> video_url, streams |-> s])
                  /\ result' = [kind |-> "streams", streams |-> s]
    /\ UNCHANGED <<reply, data, playlist, video_url, raised, first>>

Next ==
    \/ HttpGet
    \/ ParseJson
    \/ ValidateSchema
    \/ ExtractVideoUrl
    \/ ReturnStreams

Spec == Init /\ [][Next]_vars

----------------------------------------------------------------------------
(* Repeated calls: the host calls _get_streams again after a call ended *)

Urls(h) == [i \in 1..Len(h) |-> h[i].url]

\* repeated calls are explored over replies with at most one playlist entry
InitRepeat ==
    /\ reply \in Replies(1, RepeatSources)
    /\ first = NoFirst
    /\ Fresh

\* a new call that keeps the list of parser calls of the calls before it
CallAgainKeep ==
    /\ pc = "done"
    /\ first' = IF first.set THEN first
                ELSE [set |-> TRUE, reply |-> reply, raised |-> raised,
                      kind |-> result.kind, urls |-> Urls(handed)]
    /\ reply' \in Replies(1, RepeatSources)
    /\ pc' = "get"
    /\ data' = NoData
    /\ playlist' = <<>>
    /\ video_url' = <<>>
    /\ events' = <<>>
    /\ handed' = handed
    /\ raised' = "none"
    /\ result' = Unset

\* line 30: a new call starts with fresh locals; the server's reply to it is
\* any reply.  The outcome of the first call is kept for comparison.
CallAgain ==
    /\ pc = "done"
    /\ first' = IF first.set THEN first
                ELSE [set |-> TRUE, reply |-> reply, raised |-> raised,
                      kind |-> result.kind, urls |-> Urls(handed)]
    /\ reply' \in Replies(1, RepeatSources)
    /\ pc' = "get"
    /\ data' = NoData
    /\ playlist' = <<>>
    /\ video_url' = <<>>
    /\ events' = <<>>
    /\ handed' = <<>>
    /\ raised' = "none"
    /\ result' = Unset

NextRepeat == Next \/ CallAgain

SpecRepeat == InitRepeat /\ [][NextRepeat]_vars

----------------------------------------------------------------------------
(* What the claims speak about, read off the server's reply *)

Done == pc = "done"

IsJson == reply.kind = "json"

\* the reply is JSON and playlist[0].sources[0].file exists in it
HasFirstFile ==
    /\ IsJson
    /\ HasKey(reply.val, "playlist")
    /\ reply.val.val.playlist.kind = "list"
    /\ Len(reply.val.val.playlist.val) >= 1
    /\ HasKey(reply.val.val.playlist.val[1], "sources")
    /\ reply.val.val.playlist.val[1].val.sources.kind = "list"
    /\ Len(reply.val.val.playlist.val[1].val.sources.val) >= 1
    /\ HasKey(reply.val.val.playlist.val[1].val.sources.val[1], "file")

FirstFile == reply.val.val.playlist.val[1].val.sources.val[1].val.file

\* the reply is a JSON mapping whose "playlist" is a list
HasPlaylist ==
    /\ IsJson
    /\ HasKey(reply.val, "playlist")
    /\ reply.val.val.playlist.kind = "list"

PlaylistItems == reply.val.val.playlist.val

\* the "sources" entries of one playlist entry, where it has a list of them
SourcesOf(e) ==
    IF HasKey(e, "sources") /\ e.val.sources.kind = "list"
    THEN {e.val.sources.val[j] : j \in 1..Len(e.val.sources.val)}
    ELSE {}

\* every source entry of the reply
AllSources == UNION {SourcesOf(PlaylistItems[i]) : i \in 1..Len(PlaylistItems)}

\* a string that is an absolute URL (scheme and network location) and ends
\* in the characters ".m3u8"
AbsoluteEndingInM3u8(f) ==
    /\ f.kind = "str"
    /\ UrlParse(f.val).scheme # <<>>
    /\ UrlParse(f.val).netloc # <<>>
    /\ EndsWith(f.val, M3U8)

\* a string with a network location whose path component ends in ".m3u8"
NetlocAndPathM3u8(f) ==
    /\ f.kind = "str"
    /\ UrlParse(f.val).netloc # <<>>
    /\ EndsWith(UrlParse(f.val).path, M3U8)

\* a string that is a URL (it names a network location)
IsUrl(f) == f.kind = "str" /\ UrlParse(f.val).netloc # <<>>

SchemaFailure == raised = "SchemaError" /\ handed = <<>> /\ result = Unset

Pipeline == <<"GET", "parse", "validate", "extract", "delegate">>

IsPrefix(s, t) == Len(s) <= Len(t) /\ s = SubSeq(t, 1, Len(s))

----------------------------------------------------------------------------
(* Claims *)

\* C1: for a reply that conforms to the schema and has a
\* playlist[0].sources[0].file, the call hands exactly that string, once, to
\* the HLS parser and returns the stream set the parser produced.
C1_ValidReplyHandsFirstFile ==
    (Done /\ HasFirstFile /\ SchemaDoc(reply.val).ok) =>
        /\ Len(handed) = 1
        /\ handed[1].url = FirstFile.val
        /\ raised = "none"
        /\ result = [kind |-> "streams", streams |-> handed[1].streams]

C1_Witness ==
    /\ Done /\ HasFirstFile /\ SchemaDoc(reply.val).ok
    /\ FirstFile = Str(UrlA)
    /\ Len(PlaylistItems) = 2
    /\ handed = <<[url |-> UrlA, streams |-> {"best", "worst"}]>>
    /\ result.streams = {"best", "worst"}

\* C2: for a JSON reply whose playlist[0].sources[0].file is "", the call
\* ends without an error, returns no streams and never calls the HLS parser.
C2_EmptyFileGivesNoStream ==
    (Done /\ HasFirstFile /\ FirstFile = Str(Empty)) =>
        /\ raised = "none"
        /\ result.kind = "none"
        /\ handed = <<>>

\* C3 as stated: every URL handed to the HLS parser is an absolute URL whose
\* string ends in ".m3u8", and a playlist[0].sources[0].file that is not one
\* ends the call with a schema error and no parser call.
C3_HandedUrlStringEndsInM3u8 ==
    /\ \A i \in 1..Len(handed) : AbsoluteEndingInM3u8(Str(handed[i].url))
    /\ (Done /\ HasFirstFile /\ ~AbsoluteEndingInM3u8(FirstFile)) => SchemaFailure

\* C3 as amended: every URL handed to the HLS parser has a network location
\* and a path component ending in ".m3u8", and a playlist[0].sources[0].file
\* that is not such a string ends the call with a schema error and no parser
\* call.
C3_HandedUrlPathEndsInM3u8 ==
    /\ \A i \in 1..Len(handed) : NetlocAndPathM3u8(Str(handed[i].url))
    /\ (Done /\ HasFirstFile /\ ~NetlocAndPathM3u8(FirstFile)) => SchemaFailure

C3_Witness ==
    /\ Done
    /\ Len(handed) = 1
    /\ handed[1].url = UrlQ
    /\ ~EndsWith(handed[1].url, M3U8)

\* C4: a JSON reply whose top-level mapping has no key "playlist" ends the
\* call with a schema error, and the HLS parser is not called.
C4_MissingPlaylistIsSchemaError ==
    (Done /\ IsJson /\ reply.val.kind = "dict" /\ ~HasKey(reply.val, "playlist"))
        => SchemaFailure

C4_Witness ==
    /\ Done /\ IsJson
    /\ reply.val = Dict([file |-> Str(UrlA), title |-> Null])
    /\ raised = "SchemaError"

\* C5: a reply body that is no JSON ends the call with a parse error (not a
\* schema error, not the empty result); validation is not reached and the
\* HLS parser is not called.
C5_NonJsonIsParseError ==
    (Done /\ reply.kind = "text") =>
        /\ raised = "ParseError"
        /\ events = <<"GET", "parse">>
        /\ handed = <<>>
        /\ result = Unset

C5_Witness ==
    Done /\ reply = Garbage /\ raised = "ParseError"

\* C6 as stated: a reply in which some "file" is a URL whose string does not
\* end in ".m3u8" ends the call with a schema error and no parser call.
C6_FileNotEndingInM3u8Rejected ==
    (Done /\ HasPlaylist
        /\ \E src \in AllSources :
              /\ HasKey(src, "file")
              /\ IsUrl(src.val.file)
              /\ ~EndsWith(src.val.file.val, M3U8))
        => SchemaFailure

\* C6 as amended: a reply in which some "file" is a URL whose path component
\* does not end in ".m3u8" ends the call with a schema error and no parser
\* call.
C6_FilePathNotEndingInM3u8Rejected ==
    (Done /\ HasPlaylist
        /\ \E src \in AllSources :
              /\ HasKey(src, "file")
              /\ IsUrl(src.val.file)
              /\ ~EndsWith(UrlParse(src.val.file.val).path, M3U8))
        => SchemaFailure

C6_Witness ==
    /\ Done /\ HasFirstFile
    /\ FirstFile = Str(UrlMp4)
    /\ raised = "SchemaError"
    /\ events = <<"GET", "parse", "validate">>

C8_EmptyListsAreSchemaErrors ==
    Done =>
        /\ raised # "IndexError"
        /\ (HasPlaylist /\ Len(PlaylistItems) = 0) => SchemaFailure
        /\ (HasPlaylist /\ Len(PlaylistItems) >= 1
              /\ HasKey(PlaylistItems[1], "sources")
              /\ PlaylistItems[1].val.sources = List(<<>>)) => SchemaFailure

\* C9: a call issues one GET and never a second; a transport failure leaves
\* the call as that failure with no further step and no parser call; the
\* steps of every call are a prefix of GET, parse, validate, extract,
\* delegate, with at most one parser call.
C9_OneGetLinearPipeline ==
    /\ IsPrefix(events, Pipeline)
    /\ (pc # "get") => (Len(events) >= 1 /\ events[1] = "GET")
    /\ Cardinality({i \in 1..Len(events) : events[i] = "GET"}) <= 1
    /\ Len(handed) <= 1
    /\ (Len(handed) = 1) <=> (Len(events) = 5)
    /\ (Done /\ reply.kind = "fail") =>
          /\ raised = "NetworkError"
          /\ events = <<"GET">>
          /\ handed = <<>>
          /\ result = Unset
    /\ (raised = "NetworkError") => reply.kind = "fail"

C9_Witness ==
    Done /\ reply = NetFail /\ raised = "NetworkError" /\ events = <<"GET">>

\* C10 as stated: if any playlist entry lacks "sources", or any source lacks
\* "file" or has a "file" that is not an absolute URL ending in ".m3u8", the
\* call ends with a schema error and no parser call.
C10_AnyBadElementRejected ==
    (Done /\ HasPlaylist
        /\ \/ \E i \in 1..Len(PlaylistItems) : ~HasKey(PlaylistItems[i], "sources")
           \/ \E src \in AllSources :
                 \/ ~HasKey(src, "file")
                 \/ ~AbsoluteEndingInM3u8(src.val.file))
        => SchemaFailure

\* C10 as amended: if any playlist entry lacks "sources", or any source lacks
\* "file" or has a "file" that is not a string with a network location and a
\* path component ending in ".m3u8", the call ends with a schema error and no
\* parser call.
C10_AnyBadElementRejectedByPath ==
    (Done /\ HasPlaylist
        /\ \/ \E i \in 1..Len(PlaylistItems) : ~HasKey(PlaylistItems[i], "sources")
           \/ \E src \in AllSources :
                 \/ ~HasKey(src, "file")
                 \/ ~NetlocAndPathM3u8(src.val.file))
        => SchemaFailure

C10_Witness ==
    /\ Done /\ HasFirstFile
    /\ FirstFile = Str(UrlA)
    /\ Len(PlaylistItems) = 2
    /\ ~HasKey(PlaylistItems[2], "sources")
    /\ raised = "SchemaError"

====
